---- MODULE Spec2Model ----
(***************************************************************************)
(* travel-agent: the tool registry (app/mcp_registry.py), the retry        *)
(* executor and the five-node graph (app/workflow.py) and the /plan        *)
(* handler with its overall deadline (app/main.py).                        *)
(*                                                                         *)
(* Time is abstracted: a timer (the per-call timeout, the plan deadline,   *)
(* the end of a backoff sleep) may fire at any step at which the code is   *)
(* suspended in the await the timer guards.                                *)
(***************************************************************************)
EXTENDS Integers, Sequences, FiniteSets, TLC

\* ------------------------------------------------------------------ bounds

\* Number of /plan requests that may be in progress at the same time.
NumRuns == 2

Runs == 1..NumRuns

\* Number of tool responses of one run that may fail to carry the tool's
\* payload (an error result, or a result without the tool's key).
MaxDegraded == 1

\* The concurrent direct callers of registry.call_tool.
NumCallers == 2

Callers == 1..NumCallers

\* Number of words of a free text (an overview, a model answer that is no
\* JSON).
MaxWords == 2

\* Number of content items of a tool response.
MaxItems == 3

\* Number of tool results an extractor is given, and of parsed fragments in
\* all of them together.
MaxResults == 2
MaxFrags == 2

\* Number of items of a schedule list.
MaxSchedule == 2

\* Number of tools in the registry, and of invocations of their callables.
MaxTools == 3
MaxInvocations == 2

\* ------------------------------------------------------- program constants

\* config.py: tool_max_retries, llm_max_retries.
tool_max_retries == 1
llm_max_retries == 2
\* config.py: retry_backoff_sec = 1.5, counted here in half seconds.
retry_backoff_sec == 3

\* The tools the tool host (app/mcp_server.py) may declare.
ToolNames == {"amap_search_poi", "amap_weather", "amap_route"}

\* ------------------------------------------------------------------ graph

Nodes == {"attraction_node", "weather_node", "hotel_node", "route_node", "planner_node"}

END == "END"

\* graph.set_entry_point
EntryPoint == "attraction_node"

\* Mutation of Edges: the hotel stage is wired before the weather stage.
EdgesHotelFirst ==
    { <<"attraction_node", "hotel_node">>,
      <<"hotel_node", "weather_node">>,
      <<"weather_node", "route_node">>,
      <<"route_node", "planner_node">>,
      <<"planner_node", "END">> }

\* graph.add_edge(a, b), as the set of pairs <<a, b>>.
Edges ==
    { <<"attraction_node", "weather_node">>,
      <<"weather_node", "hotel_node">>,
      <<"hotel_node", "route_node">>,
      <<"route_node", "planner_node">>,
      <<"planner_node", END>> }

\* The node the compiled graph runs after node n.
NextNode(n) == CHOOSE m \in Nodes \cup {END} : <<n, m>> \in Edges

\* The tool each data-gathering node asks _call_tool for.
NodeTool(n) ==
    CASE n = "attraction_node" -> "amap_search_poi"
      [] n = "weather_node"    -> "amap_weather"
      [] n = "hotel_node"      -> "amap_search_poi"
      [] n = "route_node"      -> "amap_route"

\* The key of TripState each node puts its result under.
NodeSlot(n) ==
    CASE n = "attraction_node" -> "attractions"
      [] n = "weather_node"    -> "weather"
      [] n = "hotel_node"      -> "hotels"
      [] n = "route_node"      -> "route"
      [] n = "planner_node"    -> "plan"

\* The label a node gives _call_with_retries.
NodeLabel(n) ==
    CASE n = "attraction_node" -> "tool:amap_search_poi"
      [] n = "weather_node"    -> "tool:amap_weather"
      [] n = "hotel_node"      -> "tool:amap_search_poi"
      [] n = "route_node"      -> "tool:amap_route"
      [] n = "planner_node"    -> "planner_llm"

\* max_retries of the _call_with_retries call a node makes.
NodeMaxRetries(n) == IF n = "planner_node" THEN llm_max_retries ELSE tool_max_retries

\* 2 ** n
RECURSIVE Pow2(_)
Pow2(n) == IF n = 0 THEN 1 ELSE 2 * Pow2(n - 1)

\* Mutation of BackoffDelay: the exponent is off by one.
BackoffDelayOffByOne(att) == retry_backoff_sec * Pow2(att + 1)

\* asyncio.sleep(backoff_sec * (2 ** attempt))
BackoffDelay(att) == retry_backoff_sec * Pow2(att)

\* ------------------------------------------------------- tool-host payloads

\* The texts a content item of a tool response may carry.  The first three
\* are what the tools of app/mcp_server.py return; TextGeoFail is
\* amap_route's {"error": "geocode_failed", ...}; TextPlain is text that is
\* not JSON.
TextPois == "{\"pois\": [P1]}"
TextWeather == "{\"weather\": {W1}}"
TextRoute == "{\"route\": {R1}}"
TextGeoFail == "{\"error\": \"geocode_failed\"}"
TextPlain == "upstream unavailable"

\* A payload of a tool host whose well-known key holds null.
TextNull(tool) ==
    CASE tool = "amap_search_poi" -> "{\"pois\": null}"
      [] tool = "amap_weather"    -> "{\"weather\": null}"
      [] tool = "amap_route"      -> "{\"route\": null}"

\* A text that is JSON but no mapping: an array.
TextList == "[1, 2]"

\* json.loads(text) raises JSONDecodeError
JsonDecodeError(text) == text = TextPlain

\* json.loads(text) for the texts that parse: a mapping, given by its keys and
\* the value under each.
json_loads(text) ==
    CASE text = TextPois    -> [isdict |-> TRUE, keys |-> {"pois"},    val |-> "[P1]"]
      [] text = TextWeather -> [isdict |-> TRUE, keys |-> {"weather"}, val |-> "{W1}"]
      [] text = TextRoute   -> [isdict |-> TRUE, keys |-> {"route"},   val |-> "{R1}"]
      [] text = TextGeoFail -> [isdict |-> TRUE, keys |-> {"error"},   val |-> "geocode_failed"]
      [] text = TextList    -> [isdict |-> FALSE, keys |-> {},         val |-> "[1, 2]"]
      [] text = TextNull("amap_search_poi") ->
                               [isdict |-> TRUE, keys |-> {"pois"},    val |-> "null"]
      [] text = TextNull("amap_weather") ->
                               [isdict |-> TRUE, keys |-> {"weather"}, val |-> "null"]
      [] text = TextNull("amap_route") ->
                               [isdict |-> TRUE, keys |-> {"route"},   val |-> "null"]

\* A content item of a CallToolResult: it has a text attribute or not.
Item(t) == [hasText |-> TRUE, text |-> t]

\* A content item without a text attribute (an image, a resource).
NoTextItem == [hasText |-> FALSE, text |-> ""]

\* What session.call_tool may answer for a tool: the tool's own payload, an
\* error result (isError: the tool raised in the tool host) or, from
\* amap_route, its geocode_failed result, which has no route key.
ToolPayload(tool) ==
    CASE tool = "amap_search_poi" -> TextPois
      [] tool = "amap_weather"    -> TextWeather
      [] tool = "amap_route"      -> TextRoute

HostResponses(tool) ==
    { [isError |-> FALSE, content |-> <<Item(ToolPayload(tool))>>],
      [isError |-> FALSE, content |-> <<Item(TextNull(tool))>>],
      [isError |-> TRUE,  content |-> <<Item(TextPlain)>>] }
    \cup
    IF tool = "amap_route"
    THEN { [isError |-> FALSE, content |-> <<Item(TextPlain), Item(TextGeoFail)>>] }
    ELSE {}

\* Mutation of text_parts: each text is put in front of the list.
RECURSIVE text_partsPrepend(_)
text_partsPrepend(content) ==
    IF content = <<>> THEN <<>>
    ELSE IF Head(content).hasText
         THEN text_partsPrepend(Tail(content)) \o <<Head(content).text>>
         ELSE text_partsPrepend(Tail(content))

\* call_tool, lines 62-70: text_parts
RECURSIVE text_parts(_)
text_parts(content) ==
    IF content = <<>> THEN <<>>
    ELSE IF Head(content).hasText
         THEN <<Head(content).text>> \o text_parts(Tail(content))
         ELSE text_parts(Tail(content))

\* call_tool, lines 62-70: json_parts
RECURSIVE json_parts(_)
json_parts(content) ==
    IF content = <<>> THEN <<>>
    ELSE IF Head(content).hasText /\ ~JsonDecodeError(Head(content).text)
         THEN <<json_loads(Head(content).text)>> \o json_parts(Tail(content))
         ELSE json_parts(Tail(content))

\* call_tool, lines 59-77: the dict it returns for the response result.
CallToolResult(result) ==
    IF result.isError
    THEN [error |-> TRUE, content |-> result.content]
    ELSE [error |-> FALSE, content |-> text_parts(result.content),
          json |-> json_parts(result.content)]

\* result.get("json", [])
GetJson(result) == IF "json" \in DOMAIN result THEN result.json ELSE <<>>

\* Mutation of ScanItems: without isinstance(item, dict).
RECURSIVE ScanItemsAnyType(_, _)
ScanItemsAnyType(items, key) ==
    IF items = <<>> THEN <<FALSE, "">>
    ELSE IF key \in Head(items).keys
         THEN <<TRUE, Head(items).val>>
         ELSE ScanItemsAnyType(Tail(items), key)

\* The inner loop of an extractor over one result's fragments: a pair
\* <<found, value>>.
RECURSIVE ScanItems(_, _)
ScanItems(items, key) ==
    IF items = <<>> THEN <<FALSE, "">>
    ELSE IF Head(items).isdict /\ key \in Head(items).keys
         THEN <<TRUE, Head(items).val>>
         ELSE ScanItems(Tail(items), key)

\* The common body of _extract_pois, _extract_weather and _extract_route.
RECURSIVE Extract(_, _, _)
Extract(results, key, default) ==
    IF results = <<>> THEN default
    ELSE LET hit == ScanItems(GetJson(Head(results)), key)
         IN  IF hit[1] THEN hit[2] ELSE Extract(Tail(results), key, default)

extract_pois(results) == Extract(results, "pois", "[]")
extract_weather(results) == Extract(results, "weather", "{}")
extract_route(results) == Extract(results, "route", "{}")

\* Mutation of NodeExtract: hotel_node takes the route out of its result.
NodeExtractHotelRoute(n, result) ==
    CASE n = "attraction_node" -> extract_pois(<<result>>)
      [] n = "weather_node"    -> extract_weather(<<result>>)
      [] n = "hotel_node"      -> extract_route(<<result>>)
      [] n = "route_node"      -> extract_route(<<result>>)

\* The extractor a data-gathering node applies to [result].
NodeExtract(n, result) ==
    CASE n = "attraction_node" -> extract_pois(<<result>>)
      [] n = "weather_node"    -> extract_weather(<<result>>)
      [] n = "hotel_node"      -> extract_pois(<<result>>)
      [] n = "route_node"      -> extract_route(<<result>>)

\* ------------------------------------------------------------ model output

\* ai.content as a sequence of tokens: "BT" a backtick, "json" the word json,
\* " " white space, "x" any other text, and DocTokens, each a complete JSON
\* document that is a plan (a mapping with an overview and a list of days).
DocTokens == {"DOC1", "DOC3"}

\* Complete JSON documents that are no plan: "DOCLIST" an array, "DOCOBJ" a
\* mapping without overview and days.
OtherDocs == {"DOCLIST", "DOCOBJ"}

\* The plan document spelled out around its overview: "{o:" is the text up to
\* and including the quote that opens the overview string, "}" the text from
\* the quote that closes it; the days are the empty array.  Between the two
\* any WordTokens are the characters of the overview.
WordTokens == {"json", "x", " "}

\* ai.content when the message has no content (None).
Absent == <<"None">>

\* The number of day entries of a document.
DocDays(tok) == IF tok = "DOC1" THEN 1 ELSE 3

\* content.strip()
RECURSIVE LStrip(_, _)
LStrip(s, chars) ==
    IF s # <<>> /\ Head(s) \in chars THEN LStrip(Tail(s), chars) ELSE s

RECURSIVE RStrip(_, _)
RStrip(s, chars) ==
    IF s # <<>> /\ s[Len(s)] \in chars THEN RStrip(SubSeq(s, 1, Len(s) - 1), chars) ELSE s

Strip(s, chars) == RStrip(LStrip(s, chars), chars)

\* content.startswith of three backticks
StartsWithFence(s) == Len(s) >= 3 /\ s[1] = "BT" /\ s[2] = "BT" /\ s[3] = "BT"

\* content.replace("json", "", 1)
RECURSIVE ReplaceFirstJson(_)
ReplaceFirstJson(s) ==
    IF s = <<>> THEN <<>>
    ELSE IF Head(s) = "json" THEN Tail(s)
         ELSE <<Head(s)>> \o ReplaceFirstJson(Tail(s))

\* The plan _safe_json returns: a mapping with an overview (a token sequence)
\* and a number of days, or what json.loads made of a document.
PlanDict(overview, ndays) ==
    [isdict |-> TRUE, keys |-> {"overview", "days"}, overview |-> overview, ndays |-> ndays]

\* The {} that plan_trip puts into the initial state.
EmptyDict == [isdict |-> TRUE, keys |-> {}, overview |-> <<>>, ndays |-> 0]

\* What json.loads makes of a document that is no mapping, and of one that is
\* a mapping without the plan's keys.
NonDict == [isdict |-> FALSE, keys |-> {}, overview |-> <<>>, ndays |-> 0]
OtherDict == [isdict |-> TRUE, keys |-> {"a"}, overview |-> <<>>, ndays |-> 0]

\* json.loads(content) succeeds: content is one complete document.
IsDocument(s) ==
    \/ Len(s) = 1 /\ s[1] \in DocTokens \cup OtherDocs
    \/ /\ Len(s) >= 2
       /\ s[1] = "{o:"
       /\ s[Len(s)] = "}"
       /\ \A i \in 2..(Len(s) - 1) : s[i] \in WordTokens

\* json.loads(content) for a document.
plan_loads(s) ==
    IF Len(s) = 1
    THEN CASE s[1] \in DocTokens -> PlanDict(<<"o">>, DocDays(s[1]))
           [] s[1] = "DOCLIST"   -> NonDict
           [] s[1] = "DOCOBJ"    -> OtherDict
    ELSE PlanDict(SubSeq(s, 2, Len(s) - 1), 0)

\* _safe_json, lines 196-197: the backticks are stripped from both ends, the
\* first "json" is removed and the rest is stripped.
FenceRemoved(stripped) == Strip(ReplaceFirstJson(Strip(stripped, {"BT"})), {" "})

safe_json(content) ==
    IF content = <<>> \/ content = Absent
    THEN PlanDict(<<>>, 0)
    ELSE LET stripped == Strip(content, {" "})
             unfenced == IF StartsWithFence(stripped)
                         THEN FenceRemoved(stripped)
                         ELSE stripped
         IN  IF IsDocument(unfenced)
             THEN plan_loads(unfenced)
             ELSE PlanDict(unfenced, 0)

\* What llm.ainvoke may answer.
ModelContents ==
    { <<>>,
      <<"DOC3">>,
      <<"DOCLIST">>,
      <<"BT", "BT", "BT", "json", " ", "DOC1", " ", "BT", "BT", "BT">>,
      <<"x", " ", "x">> }

\* ------------------------------------------------------------------ state

VARIABLES
    regPc,       \* where on_startup is: new, opening, entering, initializing,
                 \* listing, started, serving, failed
    client_cm,   \* registry._client_cm is not None
    session,     \* registry._session is not None
    tools,       \* registry._tools, as the set of tool names
    locked,      \* registry._lock is held
    tool_map,    \* create_graph's tool_map, as the set of its keys
    graph_ready, \* app.state.graph is set
    pc,          \* per run: idle, node, attempt, lock_wait, in_call, llm_call,
                 \* sleep, graph_end, responded
    node,        \* per run: the node the graph is at
    attempt,     \* per run: _call_with_retries' attempt
    state,       \* per run: the TripState
    result,      \* per run: the data-gathering node's result
    received,    \* per run: what the nodes that returned got from outside, in order
    response,    \* per run: what plan_trip answered
    started,     \* per run: the nodes entered, in order
    completed,   \* per run: the nodes that returned, in order
    tries,       \* per run: the times the current call ran func()
    failures,    \* per run: the failures of the current call's attempts
    sleeps,      \* per run: the backoff sleeps of the current call
    reqs,        \* per run: the requests the current call sent on the session
    ret,         \* per run: how the current call ended: none, ok, raised
    deadline,    \* per run: the timer of plan_trip's wait_for has fired
    opened,      \* what startup() has entered: "transport", "session"
    downPc,      \* where shutdown() is: none, session_exit, transport_exit, done
    torn,        \* what shutdown() called __aexit__ on, in order
    cpc,         \* per direct caller of call_tool: idle, lock_wait, in_call, done
    cbegan,      \* per direct caller: where startup() was when the call began
    cout,        \* per direct caller: how call_tool ended
    csent,       \* per direct caller: the requests sent on the session
    fin,         \* the input of the function under study
    fout,        \* what the function returned for fin
    fdone        \* the function has been applied

regVars == <<regPc, client_cm, session, tools, tool_map, graph_ready, opened>>
lifeVars == <<downPc, torn, cpc, cbegan, cout, csent>>
fnVars == <<fin, fout, fdone>>
auxVars == <<lifeVars, fnVars>>
callVars == <<tries, failures, sleeps, reqs, ret>>
vars == <<regPc, client_cm, session, tools, locked, tool_map, graph_ready,
          pc, node, attempt, state, result, received, response, started, completed,
          tries, failures, sleeps, reqs, ret, deadline,
          opened, downPc, torn, cpc, cbegan, cout, csent, fin, fout, fdone>>

DataNodes == Nodes \ {"planner_node"}

\* plan_trip's initial
InitialState(r) ==
    [request |-> r, attractions |-> "[]", hotels |-> "[]",
     weather |-> "{}", route |-> "{}", plan |-> EmptyDict]

NoResult == [error |-> FALSE, content |-> <<>>, json |-> <<>>]

NoResponse == [status |-> 0, error |-> "", body |-> <<>>]

\* How a direct call of call_tool that has not ended stands.
NoOutcome == [kind |-> "none", exc |-> "", value |-> NoResult]

\* The registry after __init__, no request in progress and nothing started.
AppInit ==
    /\ regPc = "new"
    /\ client_cm = FALSE
    /\ session = FALSE
    /\ tools = {}
    /\ locked = FALSE
    /\ tool_map = {}
    /\ graph_ready = FALSE
    /\ pc = [r \in Runs |-> "idle"]
    /\ node = [r \in Runs |-> EntryPoint]
    /\ attempt = [r \in Runs |-> 0]
    /\ state = [r \in Runs |-> InitialState(r)]
    /\ result = [r \in Runs |-> NoResult]
    /\ received = [r \in Runs |-> <<>>]
    /\ response = [r \in Runs |-> NoResponse]
    /\ started = [r \in Runs |-> <<>>]
    /\ completed = [r \in Runs |-> <<>>]
    /\ tries = [r \in Runs |-> 0]
    /\ failures = [r \in Runs |-> <<>>]
    /\ sleeps = [r \in Runs |-> <<>>]
    /\ reqs = [r \in Runs |-> 0]
    /\ ret = [r \in Runs |-> "none"]
    /\ deadline = [r \in Runs |-> FALSE]
    /\ opened = {}
    /\ downPc = "none"
    /\ torn = <<>>
    /\ cpc = [c \in Callers |-> "idle"]
    /\ cbegan = [c \in Callers |-> "new"]
    /\ cout = [c \in Callers |-> NoOutcome]
    /\ csent = [c \in Callers |-> 0]

Init ==
    /\ AppInit
    /\ fin = <<>>
    /\ fout = <<>>
    /\ fdone = FALSE

runVars == <<pc, node, attempt, state, result, received, response, started, completed,
             tries, failures, sleeps, reqs, ret, deadline>>

\* ------------------------------------------------- on_startup and startup()

\* startup(), lines 33-35: _client_cm is set, the transport is being opened.
StartupBegin ==
    /\ regPc = "new"
    /\ client_cm' = TRUE
    /\ regPc' = "opening"
    /\ UNCHANGED <<session, tools, locked, tool_map, graph_ready, runVars, opened, auxVars>>

\* startup(), lines 35-37: the transport is open, _session is set and entered.
StartupOpened ==
    /\ regPc = "opening"
    /\ session' = TRUE
    /\ opened' = opened \cup {"transport"}
    /\ regPc' = "entering"
    /\ UNCHANGED <<client_cm, tools, locked, tool_map, graph_ready, runVars, auxVars>>

\* startup(), lines 37-38: the session is entered, initialize() is awaited.
StartupEntered ==
    /\ regPc = "entering"
    /\ opened' = opened \cup {"session"}
    /\ regPc' = "initializing"
    /\ UNCHANGED <<client_cm, session, tools, locked, tool_map, graph_ready, runVars, auxVars>>

\* startup(), lines 38-39: initialized, list_tools() is awaited.
StartupInitialized ==
    /\ regPc = "initializing"
    /\ regPc' = "listing"
    /\ UNCHANGED <<client_cm, session, tools, locked, tool_map, graph_ready, runVars, opened, auxVars>>

\* startup(), lines 39-43: the tool host's list becomes _tools.
StartupListed ==
    /\ regPc = "listing"
    /\ \E ts \in SUBSET ToolNames : tools' = ts
    /\ regPc' = "started"
    /\ UNCHANGED <<client_cm, session, locked, tool_map, graph_ready, runVars, opened, auxVars>>

\* Any await of startup() raises: on_startup fails and the app does not serve.
StartupFails ==
    /\ regPc \in {"opening", "entering", "initializing", "listing"}
    /\ regPc' = "failed"
    /\ UNCHANGED <<client_cm, session, tools, locked, tool_map, graph_ready, runVars, opened, auxVars>>

\* on_startup after startup(): create_graph snapshots the registry's tools
\* into tool_map and the graph is published.
CreateGraph ==
    /\ regPc = "started"
    /\ tool_map' = tools
    /\ graph_ready' = TRUE
    /\ regPc' = "serving"
    /\ UNCHANGED <<client_cm, session, tools, locked, runVars, opened, auxVars>>

\* ------------------------------------------------------------ plan_trip

\* What the caller of /plan gets when graph.ainvoke raises exc under
\* plan_trip's wait_for: asyncio.TimeoutError is caught by plan_trip (504
\* plan_timeout), anything else reaches unhandled_exception_handler (500).
ErrorResponse(exc) ==
    IF exc = "TimeoutError"
    THEN [status |-> 504, error |-> "plan_timeout", body |-> <<>>]
    ELSE [status |-> 500, error |-> exc, body |-> <<>>]

\* plan_trip, lines 131-153: the response built from the graph's final state.
OkResponse(st) == [status |-> 200, error |-> "", body |-> <<st>>]

\* Mutation of ToolKnown: _call_tool without the lookup.
ToolKnownAlways(name) == TRUE

\* tool_map.get(name) is not None
ToolKnown(name) == name \in tool_map

\* Mutation of Exhausted: > for >=, one attempt too many.
ExhaustedLate(att, max_retries) == att > max_retries

\* _call_with_retries, line 47: attempt >= max_retries
Exhausted(att, max_retries) == att >= max_retries

\* Mutation of CanAcquire: call_tool without the lock.
CanAcquireAlways == TRUE

\* async with self._lock: the lock can be taken
CanAcquire == ~locked

\* Mutation of NodeResult: the node returns a fresh state holding only its own
\* slot, without **state.
NodeResultFresh(st, n, value) == [InitialState(st.request) EXCEPT ![NodeSlot(n)] = value]

\* {**state, slot: value}
NodeResult(st, n, value) == [st EXCEPT ![NodeSlot(n)] = value]

\* The slot values that are not a tool's payload: the empty defaults and null.
NoPayload == {"[]", "{}", "null"}

\* The nodes of the run that returned without a payload in their slot.
Degraded(r) ==
    { i \in 1..Len(completed[r]) :
        /\ completed[r][i] \in DataNodes
        /\ state[r][NodeSlot(completed[r][i])] \in NoPayload }

\* The answers the tool host may give to the request the run has in flight.
HostAnswers(r) ==
    { resp \in HostResponses(NodeTool(node[r])) :
        \/ NodeExtract(node[r], CallToolResult(resp)) \notin NoPayload
        \/ Cardinality(Degraded(r)) < MaxDegraded }

\* plan_trip is called: the graph is invoked on the initial state under the
\* overall deadline.
PlanTrip(r) ==
    /\ pc[r] = "idle"
    /\ graph_ready
    /\ pc' = [pc EXCEPT ![r] = "node"]
    /\ node' = [node EXCEPT ![r] = EntryPoint]
    /\ state' = [state EXCEPT ![r] = InitialState(r)]
    /\ UNCHANGED <<auxVars, regVars, locked, attempt, result, received, response, started, completed,
                   callVars, deadline>>

\* plan_trip returns resp: the frames of the run (the graph's position, the
\* TripState, the node's and the executor's locals) are gone.
Respond(r, resp) ==
    /\ pc' = [pc EXCEPT ![r] = "responded"]
    /\ response' = [response EXCEPT ![r] = resp]
    /\ node' = [node EXCEPT ![r] = EntryPoint]
    /\ attempt' = [attempt EXCEPT ![r] = 0]
    /\ state' = [state EXCEPT ![r] = InitialState(r)]
    /\ result' = [result EXCEPT ![r] = NoResult]
    /\ received' = [received EXCEPT ![r] = <<>>]

\* An exception leaves the node, the graph and plan_trip's wait_for.
Propagate(r, exc) == Respond(r, ErrorResponse(exc))

\* _call_with_retries is entered: attempt = 0, and wait_for(func()) is awaited.
EnterRetries(r) ==
    /\ pc' = [pc EXCEPT ![r] = "attempt"]
    /\ attempt' = [attempt EXCEPT ![r] = 0]
    /\ tries' = [tries EXCEPT ![r] = 0]
    /\ failures' = [failures EXCEPT ![r] = <<>>]
    /\ sleeps' = [sleeps EXCEPT ![r] = <<>>]
    /\ reqs' = [reqs EXCEPT ![r] = 0]
    /\ ret' = [ret EXCEPT ![r] = "none"]

\* A data-gathering node starts: _call_tool looks the tool up and raises
\* "tool not found", or enters _call_with_retries.
DataNodeStart(r) ==
    /\ pc[r] = "node"
    /\ node[r] \in DataNodes
    /\ started' = [started EXCEPT ![r] = Append(@, node[r])]
    /\ IF ToolKnown(NodeTool(node[r]))
       THEN /\ EnterRetries(r)
            /\ UNCHANGED <<node, state, result, received, response>>
       ELSE /\ Propagate(r, "RuntimeError: tool not found")
            /\ UNCHANGED callVars
    /\ UNCHANGED <<auxVars, regVars, locked, completed, deadline>>

\* planner_node starts: the prompt is built and _call_with_retries entered.
PlannerNodeStart(r) ==
    /\ pc[r] = "node"
    /\ node[r] = "planner_node"
    /\ started' = [started EXCEPT ![r] = Append(@, node[r])]
    /\ EnterRetries(r)
    /\ UNCHANGED <<auxVars, regVars, locked, node, state, result, received, response, completed, deadline>>

\* _call_with_retries, lines 46-52: an attempt failed with exc.  Re-raise
\* when the retries are used up, else start the backoff sleep.
HandleFailure(r, exc) ==
    /\ failures' = [failures EXCEPT ![r] = Append(@, exc)]
    /\ IF Exhausted(attempt[r], NodeMaxRetries(node[r]))
       THEN /\ ret' = [ret EXCEPT ![r] = "raised"]
            /\ Propagate(r, exc)
            /\ UNCHANGED sleeps
       ELSE /\ sleeps' = [sleeps EXCEPT ![r] = Append(@, BackoffDelay(attempt[r]))]
            /\ pc' = [pc EXCEPT ![r] = "sleep"]
            /\ UNCHANGED <<ret, response, node, attempt, state, result, received>>

\* func() of a data-gathering node runs: call_tool checks the session, then
\* takes the lock and sends the request, or waits for the lock.
CallToolStart(r) ==
    /\ pc[r] = "attempt"
    /\ node[r] \in DataNodes
    /\ tries' = [tries EXCEPT ![r] = @ + 1]
    /\ IF ~session
       THEN /\ HandleFailure(r, "RuntimeError: MCP session not initialized")
            /\ UNCHANGED <<locked, reqs>>
       ELSE /\ IF CanAcquire
               THEN /\ locked' = TRUE
                    /\ reqs' = [reqs EXCEPT ![r] = @ + 1]
                    /\ pc' = [pc EXCEPT ![r] = "in_call"]
               ELSE /\ pc' = [pc EXCEPT ![r] = "lock_wait"]
                    /\ UNCHANGED <<locked, reqs>>
            /\ UNCHANGED <<failures, sleeps, ret, response, node, attempt, state, result, received>>
    /\ UNCHANGED <<auxVars, regVars, started, completed, deadline>>

\* A call_tool waiting for the lock gets it and sends its request.
LockAcquired(r) ==
    /\ pc[r] = "lock_wait"
    /\ CanAcquire
    /\ locked' = TRUE
    /\ reqs' = [reqs EXCEPT ![r] = @ + 1]
    /\ pc' = [pc EXCEPT ![r] = "in_call"]
    /\ UNCHANGED <<auxVars, regVars, node, attempt, state, result, received, response, started,
                   completed, tries, failures, sleeps, ret, deadline>>

\* The graph moves on from the node that returned.
Advance(r) ==
    /\ completed' = [completed EXCEPT ![r] = Append(@, node[r])]
    /\ IF NextNode(node[r]) = END
       THEN /\ pc' = [pc EXCEPT ![r] = "graph_end"]
            /\ UNCHANGED node
       ELSE /\ pc' = [pc EXCEPT ![r] = "node"]
            /\ node' = [node EXCEPT ![r] = NextNode(node[r])]

\* The tool host answers: the lock is released, call_tool normalizes the
\* response, _call_with_retries returns it, the node extracts its value and
\* returns the new state.
ToolResponds(r) ==
    /\ pc[r] = "in_call"
    /\ \E resp \in HostAnswers(r) :
          LET res == CallToolResult(resp)
          IN  /\ result' = [result EXCEPT ![r] = res]
              /\ received' = [received EXCEPT ![r] = Append(@, res)]
              /\ state' = [state EXCEPT ![r] =
                              NodeResult(@, node[r], NodeExtract(node[r], res))]
    /\ locked' = FALSE
    /\ ret' = [ret EXCEPT ![r] = "ok"]
    /\ Advance(r)
    /\ UNCHANGED <<auxVars, regVars, attempt, response, started, tries, failures, sleeps,
                   reqs, deadline>>

\* session.call_tool raises: the lock is released and the attempt has failed.
ToolRaises(r) ==
    /\ pc[r] = "in_call"
    /\ locked' = FALSE
    /\ HandleFailure(r, "ToolError")
    /\ UNCHANGED <<auxVars, regVars, started, completed, tries, reqs, deadline>>

\* func() of planner_node runs: llm.ainvoke is awaited.
LlmCallStart(r) ==
    /\ pc[r] = "attempt"
    /\ node[r] = "planner_node"
    /\ tries' = [tries EXCEPT ![r] = @ + 1]
    /\ pc' = [pc EXCEPT ![r] = "llm_call"]
    /\ UNCHANGED <<auxVars, regVars, locked, node, attempt, state, result, received, response, started,
                   completed, failures, sleeps, reqs, ret, deadline>>

\* The model answers: _safe_json parses ai.content and the node returns.
LlmResponds(r) ==
    /\ pc[r] = "llm_call"
    /\ \E content \in ModelContents :
          /\ state' = [state EXCEPT ![r] = NodeResult(@, node[r], safe_json(content))]
          /\ received' = [received EXCEPT ![r] = Append(@, content)]
    /\ ret' = [ret EXCEPT ![r] = "ok"]
    /\ Advance(r)
    /\ UNCHANGED <<auxVars, regVars, locked, attempt, result, response, started, tries,
                   failures, sleeps, reqs, deadline>>

\* llm.ainvoke raises.
LlmRaises(r) ==
    /\ pc[r] = "llm_call"
    /\ HandleFailure(r, "ModelError")
    /\ UNCHANGED <<auxVars, regVars, locked, started, completed, tries, reqs, deadline>>

\* Mutation of CallTimeout: the cancelled call_tool keeps the lock (acquire
\* and release by hand, without async with).
CallTimeoutKeepsLock(r) ==
    /\ pc[r] \in {"lock_wait", "in_call", "llm_call"}
    /\ UNCHANGED locked
    /\ HandleFailure(r, "TimeoutError")
    /\ UNCHANGED <<auxVars, regVars, started, completed, tries, reqs, deadline>>

\* The timer of _call_with_retries' wait_for fires: func() is cancelled (a held
\* lock is released by async with) and wait_for raises TimeoutError.
CallTimeout(r) ==
    /\ pc[r] \in {"lock_wait", "in_call", "llm_call"}
    /\ locked' = IF pc[r] = "in_call" THEN FALSE ELSE locked
    /\ HandleFailure(r, "TimeoutError")
    /\ UNCHANGED <<auxVars, regVars, started, completed, tries, reqs, deadline>>

\* The backoff sleep ends: attempt += 1 and the loop awaits wait_for(func()).
SleepDone(r) ==
    /\ pc[r] = "sleep"
    /\ attempt' = [attempt EXCEPT ![r] = @ + 1]
    /\ pc' = [pc EXCEPT ![r] = "attempt"]
    /\ UNCHANGED <<auxVars, regVars, locked, node, state, result, received, response, started, completed,
                   callVars, deadline>>

\* Mutation of DeadlineExpires: the cancellation is caught by
\* _call_with_retries like any failure of the attempt (except BaseException).
DeadlineExpiresCaught(r) ==
    /\ pc[r] \in {"lock_wait", "in_call", "llm_call"}
    /\ deadline' = [deadline EXCEPT ![r] = TRUE]
    /\ locked' = IF pc[r] = "in_call" THEN FALSE ELSE locked
    /\ HandleFailure(r, "CancelledError")
    /\ UNCHANGED <<auxVars, regVars, started, completed, tries, reqs>>

\* Mutation of DeadlineExpires: the timer is not cancelled when graph.ainvoke
\* has ended and fires on a run that was already answered.
DeadlineExpiresAfterEnd(r) ==
    /\ pc[r] \in {"node", "attempt", "lock_wait", "in_call", "llm_call", "sleep",
                  "graph_end", "responded"}
    /\ deadline' = [deadline EXCEPT ![r] = TRUE]
    /\ locked' = IF pc[r] = "in_call" THEN FALSE ELSE locked
    /\ Propagate(r, "TimeoutError")
    /\ UNCHANGED <<auxVars, regVars, started, completed, callVars>>

\* The timer of plan_trip's wait_for fires while graph.ainvoke is running: the
\* graph's task is cancelled where it is suspended (CancelledError is not an
\* Exception, so _call_with_retries does not catch it; a held lock is
\* released) and plan_trip answers 504 plan_timeout.
DeadlineExpires(r) ==
    /\ pc[r] \in {"node", "attempt", "lock_wait", "in_call", "llm_call", "sleep",
                  "graph_end"}
    /\ deadline' = [deadline EXCEPT ![r] = TRUE]
    /\ locked' = IF pc[r] = "in_call" THEN FALSE ELSE locked
    /\ Propagate(r, "TimeoutError")
    /\ UNCHANGED <<auxVars, regVars, started, completed, callVars>>

\* graph.ainvoke returns the final state and plan_trip builds the response.
GraphReturns(r) ==
    /\ pc[r] = "graph_end"
    /\ Respond(r, OkResponse(state[r]))
    /\ UNCHANGED <<auxVars, regVars, locked, started, completed, callVars, deadline>>

Next ==
    \/ StartupBegin
    \/ StartupOpened
    \/ StartupEntered
    \/ StartupInitialized
    \/ StartupListed
    \/ StartupFails
    \/ CreateGraph
    \/ \E r \in Runs :
          \/ PlanTrip(r)
          \/ DataNodeStart(r)
          \/ PlannerNodeStart(r)
          \/ CallToolStart(r)
          \/ LockAcquired(r)
          \/ ToolResponds(r)
          \/ ToolRaises(r)
          \/ LlmCallStart(r)
          \/ LlmResponds(r)
          \/ LlmRaises(r)
          \/ CallTimeout(r)
          \/ SleepDone(r)
          \/ DeadlineExpires(r)
          \/ GraphReturns(r)

Spec == Init /\ [][Next]_vars

\* The timers of the two wait_for calls are finite (tool_timeout_sec,
\* llm_timeout_sec, plan_timeout_sec) and the event loop runs their callbacks:
\* a call that stays unanswered is timed out, and a run that stays unfinished
\* meets its deadline.  Nothing is assumed of the tool host, of the model or
\* of the arrival of requests.
Fairness ==
    \A r \in Runs : WF_vars(CallTimeout(r)) /\ WF_vars(DeadlineExpires(r))

FairSpec == Spec /\ Fairness

\* ------------------------------------- the registry used on its own

\* call_tool is called on the registry, lines 55-58: without a session it
\* raises; else it takes the lock and sends the request, or waits for the lock.
CallToolBegin(c) ==
    /\ cpc[c] = "idle"
    /\ downPc = "none"
    /\ cbegan' = [cbegan EXCEPT ![c] = regPc]
    /\ IF ~session
       THEN /\ cout' = [cout EXCEPT ![c] =
                           [kind |-> "raised",
                            exc |-> "RuntimeError: MCP session not initialized",
                            value |-> NoResult]]
            /\ cpc' = [cpc EXCEPT ![c] = "done"]
            /\ UNCHANGED <<locked, csent>>
       ELSE /\ IF CanAcquire
               THEN /\ locked' = TRUE
                    /\ csent' = [csent EXCEPT ![c] = @ + 1]
                    /\ cpc' = [cpc EXCEPT ![c] = "in_call"]
               ELSE /\ cpc' = [cpc EXCEPT ![c] = "lock_wait"]
                    /\ UNCHANGED <<locked, csent>>
            /\ UNCHANGED cout
    /\ UNCHANGED <<regVars, runVars, downPc, torn, fnVars>>

\* A direct call waiting for the lock gets it and sends its request.
CallToolLockAcquired(c) ==
    /\ cpc[c] = "lock_wait"
    /\ CanAcquire
    /\ locked' = TRUE
    /\ csent' = [csent EXCEPT ![c] = @ + 1]
    /\ cpc' = [cpc EXCEPT ![c] = "in_call"]
    /\ UNCHANGED <<regVars, runVars, downPc, torn, cbegan, cout, fnVars>>

\* session.call_tool answers a direct call: the lock is released and call_tool
\* returns the normalized response, lines 59-77.
CallToolReturns(c) ==
    /\ cpc[c] = "in_call"
    /\ \E name \in ToolNames : \E resp \in HostResponses(name) :
          cout' = [cout EXCEPT ![c] =
                      [kind |-> "returned", exc |-> "", value |-> CallToolResult(resp)]]
    /\ locked' = FALSE
    /\ cpc' = [cpc EXCEPT ![c] = "done"]
    /\ UNCHANGED <<regVars, runVars, downPc, torn, cbegan, csent, fnVars>>

\* session.call_tool raises in a direct call: the lock is released and the
\* exception leaves call_tool.
CallToolRaises(c) ==
    /\ cpc[c] = "in_call"
    /\ cout' = [cout EXCEPT ![c] = [kind |-> "raised", exc |-> "ToolError", value |-> NoResult]]
    /\ locked' = FALSE
    /\ cpc' = [cpc EXCEPT ![c] = "done"]
    /\ UNCHANGED <<regVars, runVars, downPc, torn, cbegan, csent, fnVars>>

\* shutdown(), lines 46-49, from the point where the session's exit is
\* behind it: the transport is exited if _client_cm is set.
ShutdownTransport ==
    IF client_cm
    THEN /\ torn' = Append(torn, "transport")
         /\ downPc' = "transport_exit"
    ELSE /\ downPc' = "done"
         /\ UNCHANGED torn

\* shutdown() is called while startup() is not running, lines 46-47: the
\* session is exited if _session is set.
ShutdownBegin ==
    /\ downPc = "none"
    /\ regPc \in {"new", "failed", "started"}
    /\ IF session
       THEN /\ torn' = Append(torn, "session")
            /\ downPc' = "session_exit"
       ELSE ShutdownTransport
    /\ UNCHANGED <<regVars, locked, runVars, cpc, cbegan, cout, csent, fnVars>>

\* The session's __aexit__ returns, lines 48-49.
ShutdownSessionExited ==
    /\ downPc = "session_exit"
    /\ ShutdownTransport
    /\ UNCHANGED <<regVars, locked, runVars, cpc, cbegan, cout, csent, fnVars>>

\* The transport's __aexit__ returns and shutdown() with it.
ShutdownTransportExited ==
    /\ downPc = "transport_exit"
    /\ downPc' = "done"
    /\ UNCHANGED <<regVars, locked, runVars, torn, cpc, cbegan, cout, csent, fnVars>>

RegNext ==
    \/ StartupBegin
    \/ StartupOpened
    \/ StartupEntered
    \/ StartupInitialized
    \/ StartupListed
    \/ StartupFails
    \/ ShutdownBegin
    \/ ShutdownSessionExited
    \/ ShutdownTransportExited
    \/ \E c \in Callers :
          \/ CallToolBegin(c)
          \/ CallToolLockAcquired(c)
          \/ CallToolReturns(c)
          \/ CallToolRaises(c)

\* The registry driven through its own interface: startup(), shutdown() and
\* call_tool() from concurrent tasks.
RegSpec == Init /\ [][RegNext]_vars

\* --------------------------------------------- _safe_json on its own

appVars == <<regVars, locked, runVars, lifeVars>>

\* Free texts of up to MaxWords words.
Words == UNION { [1..n -> WordTokens] : n \in 0..MaxWords }

\* What may stand between the fences, or alone: a complete document, a plan
\* document around any overview, a free text, a plan document cut short.
Bodies ==
    { <<d>> : d \in DocTokens \cup OtherDocs }
    \cup { <<"{o:">> \o w \o <<"}">> : w \in Words }
    \cup Words
    \cup { <<"{o:">> \o w : w \in Words }

Blank == { <<>>, <<" ">> }

Fence == <<"BT", "BT", "BT">>

\* The contents _safe_json is applied to: no content, or a body, possibly
\* fenced, with or without a language tag ("json" or another word), with or
\* without white space around its parts.
SafeJsonInputs ==
    { Absent } \cup
    { lead \o open \o tag \o sep \o body \o sep2 \o close \o trail :
        lead \in Blank, open \in {<<>>, Fence}, tag \in {<<>>, <<"json">>, <<"x">>},
        sep \in Blank, body \in Bodies, sep2 \in Blank, close \in {<<>>, Fence},
        trail \in Blank }

ParserInit ==
    /\ AppInit
    /\ fin \in SafeJsonInputs
    /\ fout = EmptyDict
    /\ fdone = FALSE

\* plan = _safe_json(ai.content)
ApplySafeJson ==
    /\ ~fdone
    /\ fout' = safe_json(fin)
    /\ fdone' = TRUE
    /\ UNCHANGED <<fin, appVars>>

ParserNext == ApplySafeJson

ParserSpec == ParserInit /\ [][ParserNext]_vars

\* ------------------------------- call_tool's normalization on its own

\* The content items a response may hold.
Items == { Item(t) : t \in {TextPois, TextWeather, TextList, TextPlain} } \cup { NoTextItem }

\* The results session.call_tool may return: an error or not, with up to
\* MaxItems content items.
Responses ==
    { [isError |-> e, content |-> c] :
        e \in BOOLEAN, c \in UNION { [1..n -> Items] : n \in 0..MaxItems } }

NormalizeInit ==
    /\ AppInit
    /\ fin \in Responses
    /\ fout = NoResult
    /\ fdone = FALSE

\* call_tool, lines 59-77, on the result of session.call_tool
ApplyCallToolResult ==
    /\ ~fdone
    /\ fout' = CallToolResult(fin)
    /\ fdone' = TRUE
    /\ UNCHANGED <<fin, appVars>>

NormalizeNext == ApplyCallToolResult

NormalizeSpec == NormalizeInit /\ [][NormalizeNext]_vars

\* --------------------------------------------- the extractors on their own

ExtractorKeys == {"pois", "weather", "route"}

\* The parsed fragments a result may hold, seen from the extractor of key: a
\* mapping with a value under the key, one with null under it, a mapping
\* without the key, and an array that has the key as an element.
Fragments(key) ==
    { [isdict |-> TRUE,  keys |-> {key},     val |-> "V1"],
      [isdict |-> TRUE,  keys |-> {key},     val |-> "null"],
      [isdict |-> TRUE,  keys |-> {"error"}, val |-> "geocode_failed"],
      [isdict |-> FALSE, keys |-> {key},     val |-> ""] }

\* The results of call_tool: the error shape, which has no json, and the
\* success shape with up to MaxFrags parsed fragments.
ToolResults(key) ==
    { [error |-> TRUE, content |-> <<>>] } \cup
    { [error |-> FALSE, content |-> <<>>, json |-> js] :
        js \in UNION { [1..n -> Fragments(key)] : n \in 0..MaxFrags } }

\* The number of parsed fragments of a list of results.
RECURSIVE TotalFrags(_)
TotalFrags(results) ==
    IF results = <<>> THEN 0
    ELSE Len(GetJson(Head(results))) + TotalFrags(Tail(results))

ExtractInputs ==
    UNION { { [key |-> key, results |-> rs] :
                rs \in { rs \in UNION { [1..n -> ToolResults(key)] : n \in 0..MaxResults } :
                            TotalFrags(rs) <= MaxFrags } } :
            key \in ExtractorKeys }

ExtractInit ==
    /\ AppInit
    /\ fin \in ExtractInputs
    /\ fout = ""
    /\ fdone = FALSE

\* _extract_pois(results), _extract_weather(results), _extract_route(results)
ApplyExtract ==
    /\ ~fdone
    /\ fout' = CASE fin.key = "pois"    -> extract_pois(fin.results)
                 [] fin.key = "weather" -> extract_weather(fin.results)
                 [] fin.key = "route"   -> extract_route(fin.results)
    /\ fdone' = TRUE
    /\ UNCHANGED <<fin, appVars>>

ExtractNext == ApplyExtract

ExtractSpec == ExtractInit /\ [][ExtractNext]_vars

\* ------------------------------------------ _normalize_schedule on its own

\* Python values as records with their type in t.  A string is the sequence of
\* its words in s (the empty string is <<>>); a mapping has the six fields
\* _normalize_schedule reads, each a string, <<>> when the key is absent.
PyStr(s) == [t |-> "str", s |-> s]
PyNone == [t |-> "none"]
PyInt(n) == [t |-> "int", n |-> n]
PyList(items) == [t |-> "list", items |-> items]
PyDict(time, when, activity, title, desc, description) ==
    [t |-> "dict", time |-> time, when |-> when, activity |-> activity,
     title |-> title, desc |-> desc, description |-> description]

\* The mappings a schedule item may be: each key absent or with its text.
DictItems ==
    { PyDict(time, when, activity, title, desc, description) :
        time \in {<<>>, <<"T1">>}, when \in {<<>>, <<"T2">>},
        activity \in {<<>>, <<"A1">>}, title \in {<<>>, <<"A2">>},
        desc \in {<<>>, <<"A3">>}, description \in {<<>>, <<"A4">>} }

ScheduleItems == { PyStr(<<"s1">>), PyStr(<<>>), PyInt(7), PyNone } \cup DictItems

\* The values a day's "schedule" may hold.
ScheduleValues ==
    { PyList(items) : items \in UNION { [1..n -> ScheduleItems] : n \in 0..MaxSchedule } }
    \cup { PyNone, PyInt(0), PyInt(7), PyStr(<<>>), PyStr(<<"s1">>) }
    \cup DictItems

\* bool(v)
Truthy(v) ==
    CASE v.t = "none" -> FALSE
      [] v.t = "int"  -> v.n # 0
      [] v.t = "str"  -> v.s # <<>>
      [] v.t = "list" -> v.items # <<>>
      [] v.t = "dict" -> v # PyDict(<<>>, <<>>, <<>>, <<>>, <<>>, <<>>)

\* "key: value, " of str(mapping) for a key that is present
FieldStr(key, value) == IF value = <<>> THEN <<>> ELSE <<key>> \o value

\* str(v), as the sequence of its words
PyStrOf(v) ==
    CASE v.t = "none" -> <<"None">>
      [] v.t = "int"  -> IF v.n = 0 THEN <<"0">> ELSE <<"7">>
      [] v.t = "str"  -> v.s
      [] v.t = "list" -> <<"[...]">>
      [] v.t = "dict" -> <<"{">> \o FieldStr("time:", v.time) \o FieldStr("when:", v.when)
                         \o FieldStr("activity:", v.activity) \o FieldStr("title:", v.title)
                         \o FieldStr("desc:", v.desc)
                         \o FieldStr("description:", v.description) \o <<"}">>

\* a or b, for strings and None
PyOr(a, b) == IF a # <<>> THEN a ELSE b

\* _normalize_schedule, lines 33-46: the string appended for one item.
NormalizeItem(item) ==
    IF item.t = "str" THEN item.s
    ELSE IF item.t = "dict"
    THEN LET time == PyOr(item.time, PyOr(item.when, <<>>))
             activity == PyOr(item.activity,
                              PyOr(item.title, PyOr(item.desc, PyOr(item.description, <<>>))))
         IN  IF time # <<>> /\ activity # <<>> THEN time \o <<" ">> \o activity
             ELSE IF activity # <<>> THEN activity
             ELSE PyStrOf(item)
    ELSE PyStrOf(item)

\* Mutation of EarlyReturn: no early return.
EarlyReturnNever(items) == FALSE

\* _normalize_schedule, lines 27-28: if not items: return []
EarlyReturn(items) == ~Truthy(items)

\* _normalize_schedule(items): a list of strings.
normalize_schedule(items) ==
    IF EarlyReturn(items) THEN <<>>
    ELSE IF items.t = "list"
         THEN [i \in 1..Len(items.items) |-> NormalizeItem(items.items[i])]
         ELSE <<PyStrOf(items)>>

ScheduleInit ==
    /\ AppInit
    /\ fin \in ScheduleValues
    /\ fout = <<>>
    /\ fdone = FALSE

\* plan_trip, line 134: _normalize_schedule(day.get("schedule", []))
ApplyNormalizeSchedule ==
    /\ ~fdone
    /\ fout' = normalize_schedule(fin)
    /\ fdone' = TRUE
    /\ UNCHANGED <<fin, appVars>>

ScheduleNext == ApplyNormalizeSchedule

ScheduleSpec == ScheduleInit /\ [][ScheduleNext]_vars

\* ------------------------------------------- as_langchain_tools on its own

\* The registry's _tools: a list of specs, each given by its name.
ToolLists == UNION { [1..n -> ToolNames] : n \in 0..MaxTools }

\* The keyword arguments a caller passes.
CallerArgs == {"args1", "args2"}

\* Mutation of Runner: _runner reads the loop variable spec when it is called,
\* after the loop has ended.
RunnerLateBound(specs, i) == [name |-> specs[i], _spec |-> specs[Len(specs)]]

\* as_langchain_tools, lines 84-93: the tool made for the i-th spec, with the
\* name it is published under and the spec bound as _runner's default
\* argument when _runner is defined.
Runner(specs, i) == [name |-> specs[i], _spec |-> specs[i]]

\* as_langchain_tools(): one tool per spec, in the order of _tools.
as_langchain_tools(specs) == [i \in 1..Len(specs) |-> Runner(specs, i)]

ToolsInit ==
    /\ AppInit
    /\ fin \in ToolLists
    /\ fout = [tools |-> <<>>, calls |-> <<>>]
    /\ fdone = FALSE

\* tools = registry.as_langchain_tools()
ApplyAsLangchainTools ==
    /\ ~fdone
    /\ fout' = [fout EXCEPT !.tools = as_langchain_tools(fin)]
    /\ fdone' = TRUE
    /\ UNCHANGED <<fin, appVars>>

\* The i-th tool is invoked with kwargs: _runner calls
\* self.call_tool(_spec.name, kwargs), line 85.
InvokeRunner(i, kwargs) ==
    /\ fdone
    /\ Len(fout.calls) < MaxInvocations
    /\ i \in 1..Len(fout.tools)
    /\ fout' = [fout EXCEPT !.calls =
                    Append(@, [tool |-> i, name |-> fout.tools[i]._spec, arguments |-> kwargs,
                               kwargs |-> kwargs])]
    /\ UNCHANGED <<fin, fdone, appVars>>

ToolsNext ==
    \/ ApplyAsLangchainTools
    \/ \E i \in 1..MaxTools : \E kwargs \in CallerArgs : InvokeRunner(i, kwargs)

ToolsSpec == ToolsInit /\ [][ToolsNext]_vars

\* ------------------------------------------------------------ properties

Last(seq) == seq[Len(seq)]

IsPrefix(a, b) == Len(a) <= Len(b) /\ SubSeq(b, 1, Len(a)) = a

\* The order of the stages the specification gives.
StageOrder ==
    <<"attraction_node", "weather_node", "hotel_node", "route_node", "planner_node">>

\* The slot the specification gives each stage.
StageSlot(n) ==
    CASE n = "attraction_node" -> "attractions"
      [] n = "weather_node"    -> "weather"
      [] n = "hotel_node"      -> "hotels"
      [] n = "route_node"      -> "route"
      [] n = "planner_node"    -> "plan"

StateKeys == {"request", "attractions", "hotels", "weather", "route", "plan"}

\* max_retries of the call the run's current (or last) node made.
CallMaxRetries(r) ==
    IF Last(started[r]) = "planner_node" THEN llm_max_retries ELSE tool_max_retries

\* C1: a call whose first k attempts fail (k <= maxRetries) and whose next
\* attempt succeeds returns after exactly k+1 attempts, and the backoff sleeps
\* are backoffBase*2^0, ..., backoffBase*2^(k-1), in that order.
C1_RetryThenSuccess ==
    \A r \in Runs :
        ret[r] = "ok" =>
            LET k == Len(failures[r])
            IN  /\ k <= CallMaxRetries(r)
                /\ tries[r] = k + 1
                /\ Len(sleeps[r]) = k
                /\ \A i \in 1..k : sleeps[r][i] = retry_backoff_sec * Pow2(i - 1)

\* A call returned its success after maxRetries failed attempts of the model
\* call: two sleeps.
C1_Witness ==
    \E r \in Runs :
        /\ ret[r] = "ok"
        /\ Last(started[r]) = "planner_node"
        /\ Len(failures[r]) = llm_max_retries
        /\ tries[r] = llm_max_retries + 1
        /\ Len(sleeps[r]) = llm_max_retries

\* C2: a call whose every attempt fails is attempted exactly maxRetries+1
\* times, then the last attempt's failure is raised to the caller (no value is
\* returned, the failure is not swallowed), and no sleep follows the last
\* failed attempt.
C2_RetryExhaustion ==
    \A r \in Runs :
        /\ started[r] # <<>> => /\ tries[r] <= CallMaxRetries(r) + 1
                                /\ Len(failures[r]) <= CallMaxRetries(r) + 1
        /\ (started[r] # <<>> /\ Len(failures[r]) = CallMaxRetries(r) + 1)
              => ret[r] = "raised"
        /\ ret[r] = "raised" =>
              /\ tries[r] = CallMaxRetries(r) + 1
              /\ Len(failures[r]) = tries[r]
              /\ Len(sleeps[r]) = CallMaxRetries(r)
              /\ pc[r] = "responded"
              /\ Len(completed[r]) = Len(started[r]) - 1
              /\ response[r].status \in {500, 504}
              /\ response[r].body = <<>>
              /\ response[r].status = 500 => response[r].error = Last(failures[r])
              /\ response[r].status = 504 => Last(failures[r]) = "TimeoutError"

\* The model call was attempted three times and its last failure raised.
C2_Witness ==
    \E r \in Runs :
        /\ ret[r] = "raised"
        /\ Last(started[r]) = "planner_node"
        /\ tries[r] = llm_max_retries + 1
        /\ response[r].error = "ModelError"

\* C3: at most one call_tool invocation, over all tools and all runs, has sent
\* its request on the session and is awaiting the response.
C3_GateMutex ==
    /\ Cardinality({ r \in Runs : pc[r] = "in_call" }) <= 1
    /\ locked <=> \E r \in Runs : pc[r] = "in_call"

\* One run is inside the gate on a retry while another waits for the gate.
C3_Witness ==
    \E r1, r2 \in Runs :
        /\ pc[r1] = "in_call"
        /\ attempt[r1] = 1
        /\ pc[r2] = "lock_wait"
        /\ node[r1] # node[r2]

\* C4: when the overall deadline expires before the graph has finished, the
\* run ends with 504 plan_timeout carrying no plan and no state, and after
\* that the run starts no stage, makes no attempt, sends no request and does
\* not sleep.
C4_DeadlineAborts ==
    [][ \A r \in Runs :
          /\ (deadline'[r] /\ ~deadline[r]) =>
                /\ pc'[r] = "responded"
                /\ response'[r] = [status |-> 504, error |-> "plan_timeout", body |-> <<>>]
          /\ deadline[r] =>
                /\ pc'[r] = "responded"
                /\ response'[r] = response[r]
                /\ started'[r] = started[r]
                /\ completed'[r] = completed[r]
                /\ tries'[r] = tries[r]
                /\ reqs'[r] = reqs[r]
                /\ sleeps'[r] = sleeps[r] ]_vars

\* The deadline expired while the hotel stage's first attempt had failed and
\* its backoff or retry was in progress.
C4_Witness ==
    \E r \in Runs :
        /\ deadline[r]
        /\ response[r].status = 504
        /\ Len(completed[r]) = 2
        /\ Len(started[r]) = 3
        /\ Last(started[r]) = "hotel_node"
        /\ Len(failures[r]) = 1
        /\ ret[r] = "none"

\* C5: the deadline-exceeded outcome (504 plan_timeout) occurs only when the
\* overall deadline expired; a stage that exhausts its retries before that
\* ends the run in the pipeline-failure outcome.
C5_DeadlineDistinct ==
    \A r \in Runs :
        /\ response[r].error = "plan_timeout" => deadline[r]
        /\ (ret[r] = "raised" /\ ~deadline[r]) => response[r].status = 500

\* C6: the stages start in the order attraction, weather, hotel, route,
\* synthesis; a stage starts only after the previous one returned; no stage
\* runs twice; at most one stage of a run is active; after a failed stage no
\* later stage starts.
C6_StageOrder ==
    \A r \in Runs :
        /\ IsPrefix(started[r], StageOrder)
        /\ IsPrefix(completed[r], started[r])
        /\ Len(started[r]) <= Len(completed[r]) + 1
        /\ response[r].status = 500 => Len(started[r]) = Len(completed[r]) + 1
        /\ (pc[r] \in {"attempt", "lock_wait", "in_call", "llm_call", "sleep"})
              => (Len(started[r]) = Len(completed[r]) + 1 /\ Last(started[r]) = node[r])

\* A run went through all five stages.
C6_Witness ==
    \E r \in Runs : started[r] = StageOrder /\ completed[r] = StageOrder

\* C7: a stage's output state equals its input state in the request and in
\* every slot but the stage's own.
C7_SingleWriter ==
    [][ \A r \in Runs :
          (pc[r] # "idle" /\ pc'[r] # "responded" /\ state'[r] # state[r]) =>
              \E n \in Nodes :
                  /\ completed'[r] = Append(completed[r], n)
                  /\ \A k \in StateKeys \ {StageSlot(n)} : state'[r][k] = state[r][k] ]_vars

\* All five stages returned and the slots of the earlier ones still hold what
\* they wrote.
C7_Witness ==
    \E r \in Runs :
        /\ completed[r] = StageOrder
        /\ pc[r] = "graph_end"
        /\ state[r].request = r
        /\ state[r].attractions = "[P1]"
        /\ state[r].weather = "{W1}"
        /\ state[r].hotels = "[P1]"
        /\ state[r].plan.ndays = 3

\* C8: a data-gathering stage whose tool call failed never returns with the
\* empty default in its slot.
C8_NoSilentDowngrade ==
    \A r \in Runs :
        ~ /\ completed[r] # <<>>
          /\ Last(completed[r]) \in DataNodes
          /\ result[r].error
          /\ state[r][StageSlot(Last(completed[r]))] \in {"[]", "{}"}

\* C9: a stage whose tool is not among the tools fetched at startup fails at
\* once with "tool not found": the gate is not taken, no request is sent, no
\* attempt is retried, nothing sleeps, and the run ends in failure.
C9_ToolNotFoundFatal ==
    [][ \A r \in Runs :
          /\ ( /\ pc[r] = "node"
               /\ node[r] \in DataNodes
               /\ NodeTool(node[r]) \notin tools
               /\ started'[r] # started[r] ) =>
                  /\ pc'[r] = "responded"
                  /\ response'[r].status = 500
                  /\ response'[r].error = "RuntimeError: tool not found"
                  /\ locked' = locked
                  /\ tries'[r] = tries[r]
                  /\ reqs'[r] = reqs[r]
                  /\ sleeps'[r] = sleeps[r]
                  /\ completed'[r] = completed[r]
          /\ response[r].error = "RuntimeError: tool not found" =>
                  /\ pc'[r] = "responded"
                  /\ response'[r] = response[r]
                  /\ tries'[r] = tries[r]
                  /\ reqs'[r] = reqs[r]
                  /\ sleeps'[r] = sleeps[r]
                  /\ started'[r] = started[r] ]_vars

\* The route stage found no amap_route tool after three stages had run.
C9_Witness ==
    \E r \in Runs :
        /\ "amap_route" \notin tools
        /\ response[r].error = "RuntimeError: tool not found"
        /\ Last(started[r]) = "route_node"
        /\ Len(completed[r]) = 3

\* C11: a call_tool that begins before startup() has completed ends at once
\* with "MCP session not initialized", without taking the lock, and never
\* sends a request on the session.
C11_NoCallBeforeStartup ==
    [][ \A c \in Callers :
          /\ (cpc[c] = "idle" /\ cpc'[c] # "idle" /\ regPc \notin {"started", "serving"}) =>
                /\ cpc'[c] = "done"
                /\ cout'[c].kind = "raised"
                /\ cout'[c].exc = "RuntimeError: MCP session not initialized"
                /\ locked' = locked
          /\ (cpc'[c] # "idle" /\ cbegan'[c] \notin {"started", "serving"}) =>
                csent'[c] = 0 ]_vars

\* C15: shutdown() of a registry never started tears nothing down; the
\* session is torn down before the transport, each at most once; and nothing
\* is torn down that startup() had not entered.
C15_ShutdownOnlyEstablished ==
    [][ /\ (downPc = "none" /\ downPc' # "none" /\ regPc = "new") =>
              (downPc' = "done" /\ torn' = torn)
        /\ torn' # torn =>
              /\ torn' \in {<<"session">>, <<"transport">>, <<"session", "transport">>}
              /\ torn'[Len(torn')] \in opened ]_vars

\* A plan as the specification has it: a mapping with an overview and days.
WellFormedPlan(p) == p.isdict /\ {"overview", "days"} \subseteq p.keys

\* C12: for every input _safe_json returns a well-formed plan; for empty or
\* absent input the empty plan; for unfenced text that does not parse the plan
\* whose overview is the stripped text and whose days are empty.
C12_ParserWellFormed ==
    fdone =>
        /\ WellFormedPlan(fout)
        /\ (fin = <<>> \/ fin = Absent) => fout = PlanDict(<<>>, 0)
        /\ (fin # Absent /\ ~StartsWithFence(Strip(fin, {" "}))
                /\ ~IsDocument(Strip(fin, {" "})))
              => fout = PlanDict(Strip(fin, {" "}), 0)

\* The slot values that are lists, and those that are mappings.
ListValues == {"[]", "[P1]"}
MappingValues == {"{}", "{W1}", "{R1}"}

\* C13: when the graph has finished, the attractions and hotels slots are
\* lists, the weather and route slots are mappings and the plan is a mapping.
C13_ExitSlotsTyped ==
    \A r \in Runs :
        pc[r] = "graph_end" =>
            /\ state[r].attractions \in ListValues
            /\ state[r].hotels \in ListValues
            /\ state[r].weather \in MappingValues
            /\ state[r].route \in MappingValues
            /\ state[r].plan.isdict

\* The well-known key of the payload a stage asks its tool for.
StageKey(n) ==
    CASE n = "attraction_node" -> "pois"
      [] n = "weather_node"    -> "weather"
      [] n = "hotel_node"      -> "pois"
      [] n = "route_node"      -> "route"

\* The tool call answered res succeeded with a payload carrying key.
CarriesKey(res, key) ==
    /\ ~res.error
    /\ Len(res.json) = 1
    /\ res.json[1].isdict
    /\ key \in res.json[1].keys

\* The model's answer is a valid plan text.
ValidPlanText(content) == Len(content) = 1 /\ content[1] \in DocTokens

\* Every tool call of the finished run succeeded with its payload and the
\* model answered with a valid plan text.
AllSucceeded(r) ==
    /\ pc[r] = "graph_end"
    /\ Len(received[r]) = 5
    /\ \A i \in 1..4 : CarriesKey(received[r][i], StageKey(StageOrder[i]))
    /\ ValidPlanText(received[r][5])

\* C14: when every tool call succeeded with a payload carrying its key and
\* the model answered with a valid plan text of n days, the final state holds
\* each stage's payload in the stage's slot and a plan of exactly n days.
C14_EndToEnd ==
    \A r \in Runs :
        AllSucceeded(r) =>
            /\ state[r].attractions = received[r][1].json[1].val
            /\ state[r].weather = received[r][2].json[1].val
            /\ state[r].hotels = received[r][3].json[1].val
            /\ state[r].route = received[r][4].json[1].val
            /\ WellFormedPlan(state[r].plan)
            /\ state[r].plan.ndays = DocDays(received[r][5][1])
            /\ state[r].request = r

\* A run finished on the fixed POI, weather and route payloads and a plan
\* text of three days.
C14_Witness ==
    \E r \in Runs :
        /\ AllSucceeded(r)
        /\ received[r][1].json[1].val = "[P1]"
        /\ received[r][2].json[1].val = "{W1}"
        /\ received[r][3].json[1].val = "[P1]"
        /\ received[r][4].json[1].val = "{R1}"
        /\ received[r][5] = <<"DOC3">>
        /\ state[r].plan.ndays = 3

\* C16: the failure surfaced after the last attempt tells the caller the
\* failing call's label and its number of attempts: two runs whose calls
\* failed under different labels, or after different numbers of attempts, do
\* not get the same failure.
C16_FailureTagged ==
    \A r1, r2 \in Runs :
        ( /\ ret[r1] = "raised"
          /\ ret[r2] = "raised"
          /\ \/ NodeLabel(Last(started[r1])) # NodeLabel(Last(started[r2]))
             \/ tries[r1] # tries[r2] )
        => response[r1] # response[r2]

HasText(item) == item.hasText

Parses(text) == ~JsonDecodeError(text)

\* The texts of the items of a content that have a text, in order.
TextsOf(content) ==
    LET sel == SelectSeq(content, HasText)
    IN  [i \in 1..Len(sel) |-> sel[i].text]

\* The parsed values of those texts that parse, in order.
ParsedOf(texts) ==
    LET sel == SelectSeq(texts, Parses)
    IN  [i \in 1..Len(sel) |-> json_loads(sel[i])]

\* C17: for a response that signals an error call_tool returns the error
\* shape with the response's content; else the texts of the items that have
\* a text, in order, and the parsed values of those texts that parse, in
\* order; texts that do not parse are left out.
C17_Normalization ==
    fdone =>
        IF fin.isError
        THEN fout = [error |-> TRUE, content |-> fin.content]
        ELSE /\ fout.error = FALSE
             /\ fout.content = TextsOf(fin.content)
             /\ fout.json = ParsedOf(fout.content)

\* A response of a text that parses, an item without text and a text that is
\* no JSON has been normalized to two texts and one parsed value.
C17_Witness ==
    /\ fdone
    /\ ~fin.isError
    /\ fin.content = <<Item(TextPois), NoTextItem, Item(TextPlain)>>
    /\ fout.content = <<TextPois, TextPlain>>
    /\ fout.json = <<json_loads(TextPois)>>

\* The positions <<result, fragment>> of the parsed fragments that are
\* mappings containing key.
Hits(results, key) ==
    UNION { { <<i, j>> : j \in { j \in 1..Len(GetJson(results[i])) :
                                  /\ results[i].json[j].isdict
                                  /\ key \in results[i].json[j].keys } } :
            i \in 1..Len(results) }

\* The first of a set of positions: results in order, fragments in order.
FirstHit(H) ==
    CHOOSE h \in H : \A g \in H : h[1] < g[1] \/ (h[1] = g[1] /\ h[2] <= g[2])

\* The empty default of the extractor of key.
EmptyDefault(key) == IF key = "pois" THEN "[]" ELSE "{}"

\* C18: an extractor returns the value under its key of the first parsed
\* fragment, results in order and fragments in order, that is a mapping
\* containing the key, and its empty default if there is none (error-shape
\* results and fragments that are no mappings do not match).
C18_ExtractFirst ==
    fdone =>
        LET H == Hits(fin.results, fin.key)
        IN  IF H = {}
            THEN fout = EmptyDefault(fin.key)
            ELSE fout = fin.results[FirstHit(H)[1]].json[FirstHit(H)[2]].val

\* The weather extractor passed an error-shape result and, in the second
\* result, an array and returned the value of the mapping after it.
C18_Witness ==
    /\ fdone
    /\ fin.key = "weather"
    /\ Len(fin.results) = 2
    /\ fin.results[1].error
    /\ ~fin.results[2].error
    /\ Len(fin.results[2].json) = 2
    /\ ~fin.results[2].json[1].isdict
    /\ fin.results[2].json[2].isdict
    /\ fin.results[2].json[2].val = "V1"
    /\ fout = "V1"

\* The first non-empty string of a sequence of strings, <<>> if there is none.
FirstNonEmpty(strs) ==
    IF \A i \in 1..Len(strs) : strs[i] = <<>> THEN <<>>
    ELSE strs[CHOOSE i \in 1..Len(strs) :
                 strs[i] # <<>> /\ \A j \in 1..(i - 1) : strs[j] = <<>>]

\* The rendering of a schedule item the specification gives.
Rendering(item) ==
    IF item.t = "str" THEN item.s
    ELSE IF item.t # "dict" THEN PyStrOf(item)
    ELSE LET time == FirstNonEmpty(<<item.time, item.when>>)
             activity == FirstNonEmpty(<<item.activity, item.title, item.desc,
                                         item.description>>)
         IN  CASE time # <<>> /\ activity # <<>> -> time \o <<" ">> \o activity
               [] time = <<>> /\ activity # <<>> -> activity
               [] activity = <<>>                -> PyStrOf(item)

\* For a list the output has the rendering of each item, in order.
ListRendered ==
    (fdone /\ fin.t = "list") =>
        /\ Len(fout) = Len(fin.items)
        /\ \A i \in 1..Len(fout) : fout[i] = Rendering(fin.items[i])

\* C19 as claimed: a list is rendered item by item, and every value that is
\* no list is wrapped as the one-element list of its string form.
C19_WrapEveryNonList ==
    /\ ListRendered
    /\ (fdone /\ fin.t # "list") => fout = <<PyStrOf(fin)>>

\* C19, amended: a list is rendered item by item; a value that is no list is
\* wrapped as the one-element list of its string form unless it is empty
\* (None, 0, the empty string, the empty mapping), which gives the empty list.
C19_WrapNonEmptyNonList ==
    /\ ListRendered
    /\ (fdone /\ fin.t # "list") =>
          fout = IF fin \in {PyNone, PyInt(0), PyStr(<<>>),
                             PyDict(<<>>, <<>>, <<>>, <<>>, <<>>, <<>>)}
                 THEN <<>>
                 ELSE <<PyStrOf(fin)>>

\* A list of a mapping with "when", "desc" and "description" and of an empty
\* mapping has been rendered as "T2 A3" and the empty mapping's string form.
C19_Witness ==
    /\ fdone
    /\ fin.t = "list"
    /\ Len(fin.items) = 2
    /\ fin.items[1] = PyDict(<<>>, <<"T2">>, <<>>, <<>>, <<"A3">>, <<"A4">>)
    /\ fin.items[2] = PyDict(<<>>, <<>>, <<>>, <<>>, <<>>, <<>>)
    /\ fout = << <<"T2", " ", "A3">>, <<"{", "}">> >>

\* The valid plan texts: the plan documents.
PlanTexts ==
    { <<d>> : d \in DocTokens } \cup { <<"{o:">> \o w \o <<"}">> : w \in Words }

\* A text wrapped in fence markers, with the language tag json or with no
\* tag, with or without white space around the text.
FencedForms(t) ==
    { Fence \o tag \o sep \o t \o sep2 \o Fence :
        tag \in {<<>>, <<"json">>}, sep \in Blank, sep2 \in Blank }

\* C20: for every valid plan text t, _safe_json gives for t and for t wrapped
\* in fence markers, with a language tag or with none, the object that
\* parsing t gives: the payload between the fences is not altered.
C20_FenceRoundTrip ==
    fdone =>
        \A t \in PlanTexts :
            fin \in {t} \cup FencedForms(t) => fout = plan_loads(t)

\* C21: the callable made for a spec calls call_tool with that spec's name and
\* the caller's arguments, however many tools there are and in whatever order
\* the callables are invoked; each callable is published under its spec's
\* name.
C21_NoAliasing ==
    /\ fdone =>
          /\ Len(fout.tools) = Len(fin)
          /\ \A i \in 1..Len(fin) : fout.tools[i].name = fin[i]
    /\ \A k \in 1..Len(fout.calls) :
          /\ fout.calls[k].name = fin[fout.calls[k].tool]
          /\ fout.calls[k].arguments = fout.calls[k].kwargs

\* With three different tools registered, the callable of the second was
\* invoked and then that of the first, each reaching call_tool with its own
\* name.
C21_Witness ==
    /\ fdone
    /\ Len(fin) = 3
    /\ fin[1] # fin[2] /\ fin[2] # fin[3] /\ fin[1] # fin[3]
    /\ Len(fout.calls) = 2
    /\ fout.calls[1].tool = 2
    /\ fout.calls[1].name = fin[2]
    /\ fout.calls[2].tool = 1
    /\ fout.calls[2].name = fin[1]

\* C22: the gate is held only by one invocation that has sent its request and
\* awaits the response; however that invocation ends (response, exception,
\* per-call timeout, overall deadline) the gate is free in the next state; and
\* a held gate is always released later, so that a waiting invocation finds
\* it free.
C22_GateNotLeaked ==
    /\ [](locked => \E r \in Runs :
                        /\ pc[r] = "in_call"
                        /\ \A q \in Runs \ {r} : pc[q] # "in_call")
    /\ [][ \A r \in Runs : (pc[r] = "in_call" /\ pc'[r] # "in_call") => ~locked' ]_vars
    /\ (locked ~> ~locked)

\* The overall deadline of a run expired while the run held the gate and the
\* other run waited for it: the gate is free and the other run still waits.
C22_Witness ==
    \E r1, r2 \in Runs :
        /\ deadline[r1]
        /\ reqs[r1] = 1
        /\ ret[r1] = "none"
        /\ failures[r1] = <<>>
        /\ pc[r2] = "lock_wait"
        /\ ~locked

\* The three ways a run ends, as plan_trip answers them: the final state after
\* all five stages, a failure that propagated, the overall deadline exceeded.
EndsCompleted(r) ==
    /\ response[r].status = 200
    /\ response[r].body # <<>>
    /\ completed[r] = StageOrder

EndsFailed(r) ==
    /\ response[r].status = 500
    /\ response[r].error \notin {"", "plan_timeout"}
    /\ response[r].body = <<>>
    /\ completed[r] # StageOrder

EndsDeadline(r) ==
    /\ response[r].status = 504
    /\ response[r].error = "plan_timeout"
    /\ response[r].body = <<>>

Outcomes(r) ==
    (IF EndsCompleted(r) THEN {"completed"} ELSE {})
        \cup (IF EndsFailed(r) THEN {"failed"} ELSE {})
        \cup (IF EndsDeadline(r) THEN {"deadline"} ELSE {})

====
